---- MODULE Spec2Model ----
(***************************************************************************)
(* Model of src/app.py: the mushroom classification experiment pipeline.   *)
(*                                                                         *)
(* One script run is  load_data -> split -> widgets -> (on "Classify")     *)
(* construct -> fit -> score/predict/write -> plot_metrics.  Streamlit     *)
(* re-runs the script on every interaction; the two st.cache_data caches   *)
(* survive re-runs, everything else is local to main().                    *)
(*                                                                         *)
(* Conventions.                                                            *)
(*  - A categorical string of the CSV is the code point of its letter, so  *)
(*    that np.unique's sorted order is the order of the naturals.          *)
(*  - Row positions are 1..n (pandas: 0..n-1).                             *)
(*  - A real number is a pair <<num, den>>; NaN is the pair <<0, 0>>.      *)
(*  - A value shown with round(v, 2) or :.2f is an integer of hundredths.  *)
(*  - Python's None is the record None.                                    *)
(*  - Library calls are modelled by the values they return; rendering      *)
(*    calls (st.write, st.pyplot, plt) by the output they emit.            *)
(***************************************************************************)
EXTENDS Integers, Sequences, FiniteSets, TLC

VARIABLES
    raw,          \* contents of mushrooms.csv: [type |-> seq, odor |-> seq]
    rngPerm,      \* what RandomState(random_state).permutation(n) returns
    loadCache,    \* st.cache_data store of load_data
    splitCache,   \* st.cache_data store of split
    df,           \* main(): df
    sp,           \* main(): x_train, x_test, y_train, y_test
    classifier,   \* main(): classifier (selectbox)
    params,       \* main(): the hyperparameter widgets' values
    metrics,      \* main(): metrics (multiselect)
    model,        \* main(): model
    y_pred,       \* main(): y_pred
    report,       \* the three st.write lines of the results block
    plots,        \* what plot_metrics rendered, per metric
    pc,           \* position of the current script run
    steps         \* the steps the current script run has completed, in order

vars == <<raw, rngPerm, loadCache, splitCache, df, sp, classifier, params,
          metrics, model, y_pred, report, plots, pc, steps>>

----------------------------------------------------------------------------
(* Bounds of the model.                                                    *)

\* Largest CSV (rows) enumerated exhaustively.
MaxRows == 4

\* Largest test subset enumerated exhaustively for the metric functions.
MaxTest == 3

\* Decision margins range over -MaxMargin..MaxMargin, positive-class
\* probabilities over k/(2*MaxMargin), k in 0..2*MaxMargin.
MaxMargin == 1

----------------------------------------------------------------------------
(* Program constants.                                                      *)

\* test_size=0.3 as TestSizeNum/TestSizeDen
TestSizeNum == 3
TestSizeDen == 10

\* number_input("C", 0.01, 10.0, step=0.01), in hundredths
CMin == 1
CMax == 1000

\* slider("Maximum number of iterations", 100, 500)
MaxIterMin == 100
MaxIterMax == 500

\* slider("The number of trees in the forest", 100, 5000, step=10)
NEstimatorsMin == 100
NEstimatorsMax == 5000

\* slider("The maximum depth of the tree", 1, 20, step=1)
MaxDepthMin == 1
MaxDepthMax == 20

----------------------------------------------------------------------------
(* Generic helpers.                                                        *)

None == [isNone |-> TRUE]

Range(s) == {s[i] : i \in DOMAIN s}

\* The elements of a finite set of integers as a descending sequence.
RECURSIVE SortDesc(_)
SortDesc(S) ==
    IF S = {} THEN <<>>
    ELSE LET m == CHOOSE x \in S : \A y \in S : y <= x
         IN  <<m>> \o SortDesc(S \ {m})

Reverse(s) == [i \in 1..Len(s) |-> s[Len(s) + 1 - i]]

Permutations1(n) == {p \in [1..n -> 1..n] : \A i, j \in 1..n : p[i] = p[j] => i = j}

Identity(n) == [i \in 1..n |-> i]

\* round(num/den, 2) in hundredths, for num >= 0 and den > 0: the nearest
\* hundredth, a tie going to the even one.
Round2(num, den) ==
    LET q == (100 * num) \div den
        r == (100 * num) % den
    IN  IF 2 * r > den THEN q + 1
        ELSE IF 2 * r < den THEN q
        ELSE IF q % 2 = 0 THEN q ELSE q + 1

----------------------------------------------------------------------------
(* load_data: pd.read_csv, then LabelEncoder.fit_transform on every column *)

\* data.columns, in file order
Columns == <<"type", "odor">>

\* the letters of the two columns: "e", "p" and "a", "l", "n"
TypeValues == {101, 112}
OdorValues == {97, 108, 110}

NRows(data) == Len(data.type)

\* LabelEncoder.fit: classes_ becomes the sorted distinct values of the
\* column; what an earlier fit left in the encoder is replaced.
\* faulty variant: fit keeps the classes of the columns fitted before
FitMerging(classes, col) == classes \cup Range(col)
Fit(classes, col) == Range(col)

\* LabelEncoder.transform: each value's position in the sorted classes_.
Transform(classes, col) ==
    [i \in DOMAIN col |-> Cardinality({u \in classes : u < col[i]})]

\* for col in data.columns: data[col] = label.fit_transform(data[col])
\* with the one encoder object `label` carried from column to column.
RECURSIVE EncodeColumns(_, _, _)
EncodeColumns(data, k, classes) ==
    IF k > Len(Columns) THEN data
    ELSE LET col    == Columns[k]
             fitted == Fit(classes, data[col])
         IN  EncodeColumns([data EXCEPT ![col] = Transform(fitted, data[col])],
                           k + 1, fitted)

load_data(csv) == EncodeColumns(csv, 1, {})

----------------------------------------------------------------------------
(* split: train_test_split(x, y, test_size=0.3, random_state=0)            *)

\* n_test = ceil(test_size * n_samples); n_train = n_samples - n_test
\* faulty variant: n_test rounded down
NTestFloor(n) == (TestSizeNum * n) \div TestSizeDen
NTest(n) == (TestSizeNum * n + TestSizeDen - 1) \div TestSizeDen
NTrain(n) == n - NTest(n)

\* rows `ind` of a column
Take(col, ind) == [i \in 1..Len(ind) |-> col[ind[i]]]

\* ind_test = permutation[:n_test]; ind_train = permutation[n_test:n_test+n_train]
IndTest(perm) == SubSeq(perm, 1, NTest(Len(perm)))
\* faulty variant: the train slice starts one row early
IndTrainOverlapping(perm) == SubSeq(perm, NTest(Len(perm)), Len(perm))
IndTrain(perm) ==
    SubSeq(perm, NTest(Len(perm)) + 1, NTest(Len(perm)) + NTrain(Len(perm)))

\* y = df['type']; x = df.drop(columns=['type']); the same row indices
\* select the features and the labels of a subset.
split(d, perm) ==
    [x_train |-> [index |-> IndTrain(perm), odor |-> Take(d.odor, IndTrain(perm))],
     x_test  |-> [index |-> IndTest(perm),  odor |-> Take(d.odor, IndTest(perm))],
     y_train |-> [index |-> IndTrain(perm), values |-> Take(d.type, IndTrain(perm))],
     y_test  |-> [index |-> IndTest(perm),  values |-> Take(d.type, IndTest(perm))]]

----------------------------------------------------------------------------
(* The classifiers.  A fitted model is used only through predict and       *)
(* decision_function / predict_proba on x_test, so it is its score on each *)
(* feature row it is asked about; rows with equal features score equally.  *)

Classifiers == {"Support Vector Machine (SVM)", "Logistic Regression", "Random Forest"}

MetricNames == {"Confusion Matrix", "ROC Curve", "Precision-Recall Curve"}

\* hasattr(model, "decision_function"): SVC and LogisticRegression have it,
\* RandomForestClassifier has not.
HasDecisionFunction(kind) == kind # "Random Forest"

\* decision_function's margins, or the numerators k of predict_proba[:, 1]
\* = k / (2*MaxMargin).
Scores(kind) ==
    IF HasDecisionFunction(kind) THEN (0 - MaxMargin)..MaxMargin ELSE 0..(2 * MaxMargin)

\* model.predict: class 1 for a positive margin, or when class 1 has the
\* larger probability (argmax takes class 0 on a tie).
PredictOne(kind, s) ==
    IF HasDecisionFunction(kind)
    THEN (IF s > 0 THEN 1 ELSE 0)
    ELSE (IF s > MaxMargin THEN 1 ELSE 0)

Predict(m, x) == [i \in DOMAIN x.odor |-> PredictOne(m.kind, m.decision[x.odor[i]])]

\* y_prob = model.decision_function(x_test) if hasattr(...) else
\*          model.predict_proba(x_test)[:, 1]
YProb(m, x) == [i \in DOMAIN x.odor |-> m.decision[x.odor[i]]]

\* the widgets of each branch of main(), at the ends of their ranges
ParamChoices(kind) ==
    IF kind = "Support Vector Machine (SVM)"
    THEN [C : {CMin, CMax}, kernel : {"rbf", "linear"}, gamma : {"scale", "auto"}]
    ELSE IF kind = "Logistic Regression"
    THEN [C : {CMin, CMax}, max_iter : {MaxIterMin, MaxIterMax}]
    ELSE [n_estimators : {NEstimatorsMin, NEstimatorsMax},
          max_depth : {MaxDepthMin, MaxDepthMax}, bootstrap : BOOLEAN]

\* model.fit(x_train, y_train)
\* faulty variant: fit on the test subset
FitInputTest(s) == [x |-> s.x_test, y |-> s.y_test]
FitInput(s) == [x |-> s.x_train, y |-> s.y_train]

\* model.score(x_test, y_test), model.predict(x_test), plot_metrics(..., x_test, y_test, ...)
EvalInput(s) == [x |-> s.x_test, y |-> s.y_test]

----------------------------------------------------------------------------
(* sklearn.metrics, as called by main() and plot_metrics.                  *)

Count(y_true, y_hat, t, p) ==
    Cardinality({i \in DOMAIN y_true : y_true[i] = t /\ y_hat[i] = p})

\* model.score: accuracy_score, the mean of (y_pred == y_test)
Accuracy(y_true, y_hat) ==
    <<Cardinality({i \in DOMAIN y_true : y_true[i] = y_hat[i]}), Len(y_true)>>

\* precision_score(y_test, y_pred, pos_label=1): tp / (tp + fp), 0.0 on a
\* zero denominator
\* faulty variant: class 0 taken as the positive class
precision_score_pos0(y_true, y_hat) ==
    LET tp == Count(y_true, y_hat, 0, 0)
        fp == Count(y_true, y_hat, 1, 0)
    IN  IF tp + fp = 0 THEN <<0, 1>> ELSE <<tp, tp + fp>>
precision_score(y_true, y_hat) ==
    LET tp == Count(y_true, y_hat, 1, 1)
        fp == Count(y_true, y_hat, 0, 1)
    IN  IF tp + fp = 0 THEN <<0, 1>> ELSE <<tp, tp + fp>>

\* recall_score(y_test, y_pred, pos_label=1): tp / (tp + fn), 0.0 on a zero
\* denominator
recall_score(y_true, y_hat) ==
    LET tp == Count(y_true, y_hat, 1, 1)
        fn == Count(y_true, y_hat, 1, 0)
    IN  IF tp + fn = 0 THEN <<0, 1>> ELSE <<tp, tp + fn>>

\* round(v, 2) of a non-negative real
RoundShown(v) == Round2(v[1], v[2])

\* confusion_matrix(y_test, y_pred) is called without labels=: the classes are
\* the sorted distinct values that occur in y_test or y_pred, and entry
\* [i][j] counts the rows of true class i predicted as class j.
CMLabels(y_true, y_hat) == Reverse(SortDesc(Range(y_true) \cup Range(y_hat)))

confusion_matrix(y_true, y_hat) ==
    LET labels == CMLabels(y_true, y_hat)
    IN  [i \in 1..Len(labels) |->
            [j \in 1..Len(labels) |-> Count(y_true, y_hat, labels[i], labels[j])]]

\* _binary_clf_curve: the rows sorted by descending score; at each distinct
\* score, the positives (tps) and the negatives (fps) scored at least it.
Thresholds(y_score) == SortDesc(Range(y_score))

CumAtLeast(y_true, y_score, t, positive) ==
    Cardinality({i \in DOMAIN y_true :
                    y_score[i] >= t /\ ((y_true[i] = 1) <=> positive)})

BinaryClfCurve(y_true, y_score) ==
    LET th == Thresholds(y_score)
    IN  [fps |-> [k \in 1..Len(th) |-> CumAtLeast(y_true, y_score, th[k], FALSE)],
         tps |-> [k \in 1..Len(th) |-> CumAtLeast(y_true, y_score, th[k], TRUE)],
         thresholds |-> th]

\* drop_intermediate=True: with more than two points, keep the first, the
\* last and every point where the second difference of fps or tps is not 0.
OptimalIdxs(fps, tps) ==
    IF Len(fps) > 2
    THEN {1, Len(fps)} \cup
         {i + 1 : i \in {j \in 1..(Len(fps) - 2) :
                           \/ fps[j + 2] - 2 * fps[j + 1] + fps[j] # 0
                           \/ tps[j + 2] - 2 * tps[j + 1] + tps[j] # 0}}
    ELSE DOMAIN fps

Ratios(counts) ==
    LET total == counts[Len(counts)]
    IN  [i \in DOMAIN counts |-> IF total <= 0 THEN <<0, 0>> ELSE <<counts[i], total>>]

\* roc_curve(y_test, y_prob): the kept points after the added start
\* (fps, tps) = (0, 0); fpr = fps / fps[-1], tpr = tps / tps[-1], NaN when
\* the last count is 0.
\* faulty variant: no (0, 0) start point
RocCountsNoStart(c, idxs) == Take(c, idxs)
RocCounts(c, idxs) == <<0>> \o Take(c, idxs)

roc_curve(y_true, y_score) ==
    LET c    == BinaryClfCurve(y_true, y_score)
        idxs == Reverse(SortDesc(OptimalIdxs(c.fps, c.tps)))
        fps  == RocCounts(c.fps, idxs)
        tps  == RocCounts(c.tps, idxs)
    IN  [fpr |-> Ratios(fps), tpr |-> Ratios(tps), fps |-> fps, tps |-> tps]

\* np.trapz(tpr, fpr) = sum of (fpr[i+1] - fpr[i]) * (tpr[i+1] + tpr[i]) / 2
RECURSIVE TrapzNum(_, _, _)
TrapzNum(fps, tps, i) ==
    IF i >= Len(fps) THEN 0
    ELSE (fps[i + 1] - fps[i]) * (tps[i + 1] + tps[i]) + TrapzNum(fps, tps, i + 1)

Trapz(roc) ==
    LET n == roc.fps[Len(roc.fps)]
        p == roc.tps[Len(roc.tps)]
    IN  IF n <= 0 \/ p <= 0 THEN <<0, 0>> ELSE <<TrapzNum(roc.fps, roc.tps, 1), 2 * n * p>>

\* f'{v:.2f}'
Format2f(v) == IF v[2] = 0 THEN "nan" ELSE Round2(v[1], v[2])

\* precision_recall_curve(y_test, y_prob): precision = tps / (tps + fps) and
\* recall = tps / tps[-1] (all ones when there is no positive) per
\* threshold, both returned reversed, then the end point precision 1,
\* recall 0.
\* faulty variant: the curve left in threshold-descending order
PRCurveOrderUnreversed(s) == s
PRCurveOrder(s) == Reverse(s)

precision_recall_curve(y_true, y_score) ==
    LET c  == BinaryClfCurve(y_true, y_score)
        k  == Len(c.tps)
        precision == [i \in 1..k |-> <<c.tps[i], c.tps[i] + c.fps[i]>>]
        recall    == [i \in 1..k |-> IF c.tps[k] = 0 THEN <<1, 1>>
                                     ELSE <<c.tps[i], c.tps[k]>>]
    IN  [precision |-> PRCurveOrder(precision) \o << <<1, 1>> >>,
         recall    |-> PRCurveOrder(recall) \o << <<0, 1>> >>]

----------------------------------------------------------------------------
(* The script run.                                                         *)

NoPlots == [cm |-> None, roc |-> None, pr |-> None]

\* plot_metrics: if '<name>' in metrics_list
\* faulty variant: every metric plotted whatever was selected
RequestedAlways(name, metrics_list) == TRUE
Requested(name, metrics_list) == name \in metrics_list

NoCache == [hit |-> FALSE]

\* df = load_data() under @st.cache_data: the stored value on a hit
LoadData ==
    /\ pc = "load"
    /\ IF loadCache.hit
       THEN /\ df' = loadCache.value
            /\ UNCHANGED loadCache
       ELSE /\ df' = load_data(raw)
            /\ loadCache' = [hit |-> TRUE, value |-> load_data(raw)]
    /\ pc' = "split"
    /\ steps' = Append(steps, "load")
    /\ UNCHANGED <<raw, rngPerm, splitCache, sp, classifier, params, metrics,
                   model, y_pred, report, plots>>

\* x_train, x_test, y_train, y_test = split(df) under @st.cache_data, keyed
\* by the argument
Split ==
    /\ pc = "split"
    /\ IF splitCache.hit /\ splitCache.key = df
       THEN /\ sp' = splitCache.value
            /\ UNCHANGED splitCache
       ELSE /\ sp' = split(df, rngPerm)
            /\ splitCache' = [hit |-> TRUE, key |-> df, value |-> split(df, rngPerm)]
    /\ pc' = "widgets"
    /\ steps' = Append(steps, "split")
    /\ UNCHANGED <<raw, rngPerm, loadCache, df, classifier, params, metrics,
                   model, y_pred, report, plots>>

\* The sidebar: the selectbox, the chosen branch's hyperparameter widgets,
\* the multiselect and the "Classify" button.  Exactly one of the three
\* branches of main() runs; without a click the run ends.
Widgets ==
    /\ pc = "widgets"
    /\ \E kind \in Classifiers, mset \in SUBSET MetricNames, clicked \in BOOLEAN :
         \E prm \in ParamChoices(kind) :
            /\ classifier' = kind
            /\ params' = prm
            /\ metrics' = mset
            /\ pc' = IF clicked THEN "construct" ELSE "done"
    /\ UNCHANGED <<raw, rngPerm, loadCache, splitCache, df, sp, model, y_pred,
                   report, plots, steps>>

\* model = SVC(...) | LogisticRegression(...) | RandomForestClassifier(...)
Construct ==
    /\ pc = "construct"
    /\ model' = [kind |-> classifier, params |-> params, fitted |-> FALSE]
    /\ pc' = "fit"
    /\ steps' = Append(steps, "construct")
    /\ UNCHANGED <<raw, rngPerm, loadCache, splitCache, df, sp, classifier,
                   params, metrics, y_pred, report, plots>>

\* model.fit(x_train, y_train)
FitModel ==
    /\ pc = "fit"
    /\ \E decision \in [Range(sp.x_test.odor) -> Scores(model.kind)] :
          model' = [kind |-> model.kind, params |-> model.params, fitted |-> TRUE,
                    fit_index |-> FitInput(sp).x.index,
                    fit_labels |-> FitInput(sp).y.values,
                    decision |-> decision]
    /\ pc' = "evaluate"
    /\ steps' = Append(steps, "fit")
    /\ UNCHANGED <<raw, rngPerm, loadCache, splitCache, df, sp, classifier,
                   params, metrics, y_pred, report, plots>>

\* accuracy = model.score(x_test, y_test); y_pred = model.predict(x_test);
\* st.write of round(accuracy, 2), round(precision_score(...), 2),
\* round(recall_score(...), 2)
Evaluate ==
    /\ pc = "evaluate"
    /\ LET x   == EvalInput(sp).x
           y   == EvalInput(sp).y.values
           hat == Predict(model, x)
       IN  /\ y_pred' = hat
           /\ report' = [rows      |-> x.index,
                         accuracy  |-> RoundShown(Accuracy(y, hat)),
                         precision |-> RoundShown(precision_score(y, hat)),
                         recall    |-> RoundShown(recall_score(y, hat))]
    /\ pc' = "plot_cm"
    /\ steps' = Append(steps, "evaluate")
    /\ UNCHANGED <<raw, rngPerm, loadCache, splitCache, df, sp, classifier,
                   params, metrics, model, plots>>

\* plot_metrics: if 'Confusion Matrix' in metrics_list
PlotConfusionMatrix ==
    /\ pc = "plot_cm"
    /\ IF Requested("Confusion Matrix", metrics)
       THEN /\ plots' = [plots EXCEPT !.cm =
                           [rows   |-> EvalInput(sp).x.index,
                            matrix |-> confusion_matrix(EvalInput(sp).y.values,
                                                        Predict(model, EvalInput(sp).x))]]
            /\ steps' = Append(steps, "Confusion Matrix")
       ELSE UNCHANGED <<plots, steps>>
    /\ pc' = "plot_roc"
    /\ UNCHANGED <<raw, rngPerm, loadCache, splitCache, df, sp, classifier,
                   params, metrics, model, y_pred, report>>

\* plot_metrics: if 'ROC Curve' in metrics_list
PlotROC ==
    /\ pc = "plot_roc"
    /\ IF Requested("ROC Curve", metrics)
       THEN /\ LET roc == roc_curve(EvalInput(sp).y.values, YProb(model, EvalInput(sp).x))
               IN  plots' = [plots EXCEPT !.roc =
                               [rows  |-> EvalInput(sp).x.index,
                                fpr   |-> roc.fpr,
                                tpr   |-> roc.tpr,
                                auc   |-> Trapz(roc),
                                label |-> Format2f(Trapz(roc))]]
            /\ steps' = Append(steps, "ROC Curve")
       ELSE UNCHANGED <<plots, steps>>
    /\ pc' = "plot_pr"
    /\ UNCHANGED <<raw, rngPerm, loadCache, splitCache, df, sp, classifier,
                   params, metrics, model, y_pred, report>>

\* plot_metrics: if 'Precision-Recall Curve' in metrics_list
PlotPR ==
    /\ pc = "plot_pr"
    /\ IF Requested("Precision-Recall Curve", metrics)
       THEN /\ LET y   == EvalInput(sp).y.values
                   hat == Predict(model, EvalInput(sp).x)
                   prc == precision_recall_curve(y, YProb(model, EvalInput(sp).x))
               IN  plots' = [plots EXCEPT !.pr =
                               [rows      |-> EvalInput(sp).x.index,
                                recall    |-> prc.recall,
                                precision |-> prc.precision,
                                label     |-> RoundShown(precision_score(y, hat)),
                                text      |-> <<RoundShown(precision_score(y, hat)),
                                                RoundShown(recall_score(y, hat))>>]]
            /\ steps' = Append(steps, "Precision-Recall Curve")
       ELSE UNCHANGED <<plots, steps>>
    /\ pc' = "done"
    /\ UNCHANGED <<raw, rngPerm, loadCache, splitCache, df, sp, classifier,
                   params, metrics, model, y_pred, report>>

\* Any interaction starts the script again: main()'s locals are gone, the
\* st.cache_data stores stay.
Rerun ==
    /\ pc # "load"
    /\ pc' = "load"
    /\ steps' = <<>>
    /\ df' = None /\ sp' = None /\ classifier' = None /\ params' = None
    /\ metrics' = {} /\ model' = None /\ y_pred' = None /\ report' = None
    /\ plots' = NoPlots
    /\ UNCHANGED <<raw, rngPerm, loadCache, splitCache>>

----------------------------------------------------------------------------
(* Initial states and specifications.                                      *)

\* the process starts: nothing cached, nothing run
Start(csv, perm) ==
    /\ raw = csv /\ rngPerm = perm
    /\ loadCache = NoCache /\ splitCache = NoCache
    /\ df = None /\ sp = None /\ classifier = None /\ params = None
    /\ metrics = {} /\ model = None /\ y_pred = None /\ report = None
    /\ plots = NoPlots
    /\ pc = "load" /\ steps = <<>>

\* every CSV of n rows over the two columns' letters
CsvAll(n) == [type : [1..n -> TypeValues], odor : [1..n -> OdorValues]]

\* a CSV with the given labels whose rows all differ in the feature
CsvDistinct(types) == [type |-> types, odor |-> [i \in DOMAIN types |-> 96 + i]]

\* a CSV of n rows with both classes and all three feature values
CsvPattern(n) ==
    [type |-> [i \in 1..n |-> IF i % 2 = 1 THEN 101 ELSE 112],
     odor |-> [i \in 1..n |-> IF i % 3 = 1 THEN 97 ELSE IF i % 3 = 2 THEN 108 ELSE 110]]

\* three small files: distinct features, a repeated feature value, and a
\* test subset of two rows
SampleCsvs ==
    {[type |-> <<101, 112, 101>>, odor |-> <<97, 108, 110>>],
     [type |-> <<112, 112, 101>>, odor |-> <<108, 108, 97>>],
     [type |-> <<101, 112, 112, 101>>, odor |-> <<97, 108, 97, 110>>]}

\* The whole pipeline on the sample files, under every permutation.
Init == \E csv \in SampleCsvs : \E perm \in Permutations1(NRows(csv)) : Start(csv, perm)

Next ==
    \/ LoadData
    \/ Split
    \/ Widgets
    \/ Construct
    \/ FitModel
    \/ Evaluate
    \/ PlotConfusionMatrix
    \/ PlotROC
    \/ PlotPR
    \/ Rerun

Spec == Init /\ [][Next]_vars

\* load_data on every CSV of 2..MaxRows rows.
InitLoad == \E n \in 2..MaxRows : \E csv \in CsvAll(n) : Start(csv, Identity(n))

NextLoad ==
    \/ LoadData
    \/ Rerun

SpecLoad == InitLoad /\ [][NextLoad]_vars

\* load_data and split on every labelling of 2..MaxRows rows, under every
\* permutation.
InitSplit ==
    \E n \in 2..MaxRows : \E types \in [1..n -> TypeValues] :
        \E perm \in Permutations1(n) : Start(CsvDistinct(types), perm)

NextSplit ==
    \/ LoadData
    \/ Split
    \/ Rerun

SpecSplit == InitSplit /\ [][NextSplit]_vars

\* The reference scenario's row count and its neighbours, the rows drawn in
\* rng order or in its reverse.
ScenarioRowCounts == 8119..8128

InitCount ==
    \E n \in ScenarioRowCounts : \E perm \in {Identity(n), Reverse(Identity(n))} :
        Start(CsvPattern(n), perm)

SpecCount == InitCount /\ [][NextSplit]_vars

\* The metric functions on every test subset of 1..MaxTest rows, every
\* labelling of it and every score a fitted model of each kind gives it:
\* the run has loaded, split, constructed and fitted, with all three
\* metrics requested.  The file has the most rows n with
\* ceil(0.3 * n) = m; its first m rows are the test rows, the others
\* alternate between the classes.
RowsForTest(m) ==
    CHOOSE n \in 2..(TestSizeDen * m) : NTest(n) = m /\ NTest(n + 1) # m

CsvForTest(testTypes) ==
    LET m == Len(testTypes)
    IN  CsvDistinct([i \in 1..RowsForTest(m) |->
                        IF i <= m THEN testTypes[i]
                        ELSE IF (i - m) % 2 = 1 THEN 101 ELSE 112])

\* the widgets' values before the user touches them
DefaultParams(kind) ==
    IF kind = "Support Vector Machine (SVM)"
    THEN [C |-> CMin, kernel |-> "rbf", gamma |-> "scale"]
    ELSE IF kind = "Logistic Regression"
    THEN [C |-> CMin, max_iter |-> MaxIterMin]
    ELSE [n_estimators |-> NEstimatorsMin, max_depth |-> MaxDepthMin, bootstrap |-> TRUE]

Fitted(csv, perm, kind, decision) ==
    /\ raw = csv /\ rngPerm = perm
    /\ loadCache = [hit |-> TRUE, value |-> load_data(csv)]
    /\ df = load_data(csv)
    /\ splitCache = [hit |-> TRUE, key |-> load_data(csv),
                     value |-> split(load_data(csv), perm)]
    /\ sp = split(load_data(csv), perm)
    /\ classifier = kind /\ params = DefaultParams(kind)
    /\ metrics = MetricNames
    /\ model = [kind |-> kind, params |-> DefaultParams(kind), fitted |-> TRUE,
                fit_index |-> FitInput(split(load_data(csv), perm)).x.index,
                fit_labels |-> FitInput(split(load_data(csv), perm)).y.values,
                decision |-> decision]
    /\ y_pred = None /\ report = None /\ plots = NoPlots
    /\ pc = "evaluate"
    /\ steps = <<"load", "split", "construct", "fit">>

InitMetrics ==
    \E m \in 1..MaxTest : \E testTypes \in [1..m -> TypeValues] :
        \E kind \in Classifiers : \E decision \in [0..(m - 1) -> Scores(kind)] :
            Fitted(CsvForTest(testTypes), Identity(RowsForTest(m)), kind, decision)

NextMetrics ==
    \/ Evaluate
    \/ PlotConfusionMatrix
    \/ PlotROC
    \/ PlotPR

SpecMetrics == InitMetrics /\ [][NextMetrics]_vars

----------------------------------------------------------------------------
(* The claims.                                                             *)

\* a <= b for two reals with positive denominators
Leq(a, b) == a[1] * b[2] <= b[1] * a[2]

NonDecreasing(s) == \A i \in 1..(Len(s) - 1) : Leq(s[i], s[i + 1])
NonIncreasing(s) == \A i \in 1..(Len(s) - 1) : Leq(s[i + 1], s[i])

\* C1: split returns a partition of the rows: no row is in both train and
\* test, every row is in exactly one, the features and the labels of each
\* subset are those of the same rows of df, and every call returns what the
\* first call returned.
SplitPartitionsRows ==
    sp # None =>
        LET train == sp.x_train.index
            test  == sp.x_test.index
        IN  /\ Range(train) \cap Range(test) = {}
            /\ Range(train) \cup Range(test) = 1..NRows(df)
            /\ Len(train) + Len(test) = NRows(df)
            /\ sp.y_train.index = train
            /\ sp.y_test.index = test
            /\ \A i \in DOMAIN train :
                  /\ sp.x_train.odor[i] = df.odor[train[i]]
                  /\ sp.y_train.values[i] = df.type[train[i]]
            /\ \A i \in DOMAIN test :
                  /\ sp.x_test.odor[i] = df.odor[test[i]]
                  /\ sp.y_test.values[i] = df.type[test[i]]
            /\ splitCache.hit
            /\ sp = splitCache.value

\* C1 witness: a split of four rows, two of them test rows, drawn in an
\* order that is not the file's.
SplitPartitionsRowsWitness ==
    /\ sp # None
    /\ NRows(df) = 4
    /\ Len(sp.x_test.index) = 2
    /\ rngPerm # Identity(4)
    /\ Cardinality(Range(df.type)) = 2

\* C2: 8124 rows split into exactly 5686 train rows and 2438 test rows, in
\* every run.
ScenarioRowCountsExact ==
    (sp # None /\ NRows(df) = 8124) =>
        /\ Len(sp.x_train.index) = 5686
        /\ Len(sp.y_train.values) = 5686
        /\ Len(sp.x_test.index) = 2438
        /\ Len(sp.y_test.values) = 2438

\* C2 witness: the 8124-row file has been split.
ScenarioRowCountsWitness == sp # None /\ NRows(df) = 8124

\* the four cells of the binary confusion matrix, counted on the test rows
TN == Count(sp.y_test.values, y_pred, 0, 0)
FP == Count(sp.y_test.values, y_pred, 0, 1)
FN == Count(sp.y_test.values, y_pred, 1, 0)
TP == Count(sp.y_test.values, y_pred, 1, 1)

\* C3: the confusion matrix is the 2x2 matrix [[TN, FP], [FN, TP]] of
\* non-negative integers whose entries sum to the number of test rows.
ConfusionMatrixIs2x2 ==
    plots.cm # None =>
        /\ plots.cm.matrix = << <<TN, FP>>, <<FN, TP>> >>
        /\ TN + FP + FN + TP = Len(sp.y_test.values)

\* the metric a field of plots belongs to
PlotOf(name) ==
    IF name = "Confusion Matrix" THEN plots.cm
    ELSE IF name = "ROC Curve" THEN plots.roc
    ELSE plots.pr

PRRecallNonDecreasing == plots.pr # None => NonDecreasing(plots.pr.recall)

\* C5: the precision-recall curve's recall is non-increasing in the order it
\* is generated and plotted.
PRRecallNonIncreasing == plots.pr # None => NonIncreasing(plots.pr.recall)

\* C5 witness: a curve of at least three points whose recall falls from 1.
PRRecallWitness ==
    /\ plots.pr # None
    /\ Len(plots.pr.recall) >= 3
    /\ plots.pr.recall[1] = <<2, 2>>
    /\ plots.pr.recall[2] = <<1, 2>>

BothClasses(y) == {0, 1} \subseteq Range(y)

\* C6: with both classes among the test labels, the ROC sequence starts at
\* (false_positive_rate, true_positive_rate) = (0, 0), its
\* false_positive_rate is non-decreasing, and the trapezoidal area over it
\* lies in [0, 1].
ROCStartsAtOriginMonotone ==
    (plots.roc # None /\ BothClasses(sp.y_test.values)) =>
        /\ plots.roc.fpr[1][1] = 0 /\ plots.roc.fpr[1][2] > 0
        /\ plots.roc.tpr[1][1] = 0 /\ plots.roc.tpr[1][2] > 0
        /\ NonDecreasing(plots.roc.fpr)
        /\ plots.roc.auc[2] > 0
        /\ 0 <= plots.roc.auc[1] /\ plots.roc.auc[1] <= plots.roc.auc[2]

\* C6 witness: a ROC curve of at least three points over both classes.
ROCWitness ==
    /\ plots.roc # None
    /\ BothClasses(sp.y_test.values)
    /\ Len(plots.roc.fpr) >= 3
    /\ plots.roc.fpr[Len(plots.roc.fpr)][1] > plots.roc.fpr[2][1]

\* a value in hundredths is the real num/den rounded to two decimals
RoundedTo(shown, num, den) ==
    /\ 200 * num - 2 * shown * den <= den
    /\ 2 * shown * den - 200 * num <= den

ZeroOr(den, cond) == IF den = 0 THEN TRUE ELSE cond

\* C7 as claimed: the reported accuracy is the fraction of test rows
\* predicted correctly, the reported precision is TP/(TP+FP) and the
\* reported recall is TP/(TP+FN), each in [0, 1], and 0 on a zero
\* denominator.
ReportIsExactFraction ==
    report # None =>
        /\ report.accuracy * Len(y_pred) = 100 * (TP + TN)
        /\ report.precision * (TP + FP) = 100 * TP
        /\ report.recall * (TP + FN) = 100 * TP
        /\ (TP + FP = 0) => report.precision = 0
        /\ (TP + FN = 0) => report.recall = 0
        /\ {report.accuracy, report.precision, report.recall} \subseteq 0..100

\* C7: the reported accuracy, precision and recall are the fraction of test
\* rows predicted correctly, TP/(TP+FP) and TP/(TP+FN), each rounded to two
\* decimals; each lies in [0, 1], and precision (recall) is 0 when TP+FP
\* (TP+FN) is 0.
ReportIsRoundedFraction ==
    report # None =>
        /\ RoundedTo(report.accuracy, TP + TN, Len(y_pred))
        /\ ZeroOr(TP + FP, RoundedTo(report.precision, TP, TP + FP))
        /\ ZeroOr(TP + FN, RoundedTo(report.recall, TP, TP + FN))
        /\ (TP + FP = 0) => report.precision = 0
        /\ (TP + FN = 0) => report.recall = 0
        /\ {report.accuracy, report.precision, report.recall} \subseteq 0..100

\* C7 witness: two of three test rows are right and one of two predicted
\* positives is a true positive.
ReportWitness ==
    /\ report # None
    /\ Len(y_pred) = 3
    /\ TP + TN = 2
    /\ report.accuracy = 67
    /\ TP = 1 /\ FP = 1
    /\ report.precision = 50

\* C9: in every column with k distinct values the codes are a bijection from
\* the distinct values onto 0..k-1, whatever was encoded before it, and
\* every call of load_data returns the same encoded table.
EncodingIsBijection ==
    df # None =>
        /\ \A c \in Range(Columns) :
              /\ Len(df[c]) = Len(raw[c])
              /\ Range(df[c]) = 0..(Cardinality(Range(raw[c])) - 1)
              /\ \A i, j \in DOMAIN raw[c] :
                    (raw[c][i] = raw[c][j]) <=> (df[c][i] = df[c][j])
        /\ loadCache.hit
        /\ df = loadCache.value

\* C9 witness: a column with two of the three letters, the smallest letter
\* absent, encoded after the label column.
EncodingWitness ==
    /\ df # None
    /\ Range(raw.odor) = {108, 110}
    /\ Range(raw.type) = {101, 112}
    /\ Range(df.odor) = {0, 1}

Stage(step) ==
    CASE step = "load" -> 1
      [] step = "split" -> 2
      [] step = "construct" -> 3
      [] step = "fit" -> 4
      [] step = "evaluate" -> 5
      [] step = "Confusion Matrix" -> 6
      [] step = "ROC Curve" -> 7
      [] step = "Precision-Recall Curve" -> 8

Did(step) == step \in Range(steps)

\* C10: the steps of a run occur in the order load, split, construct, fit,
\* evaluate, curves, each at most once; the model is fitted on the train
\* subset after load and split; the scalars and every curve are computed on
\* the test subset after fit; one classifier kind is constructed per run.
PipelineInOrder ==
    /\ \A i, j \in DOMAIN steps : i < j => Stage(steps[i]) < Stage(steps[j])
    /\ \A i \in DOMAIN steps : i > 1 /\ Stage(steps[i]) <= 5 =>
          Stage(steps[i - 1]) = Stage(steps[i]) - 1
    /\ \A i \in DOMAIN steps : Stage(steps[i]) > 5 => Did("evaluate")
    /\ steps # <<>> => steps[1] = "load"
    /\ df # None <=> Did("load")
    /\ sp # None <=> Did("split")
    /\ model # None <=> Did("construct")
    /\ model # None =>
          /\ model.kind = classifier
          /\ model.fitted <=> Did("fit")
          /\ model.fitted =>
                /\ model.fit_index = sp.x_train.index
                /\ model.fit_labels = sp.y_train.values
    /\ report # None <=> Did("evaluate")
    /\ report # None => report.rows = sp.x_test.index
    /\ \A name \in MetricNames :
          /\ PlotOf(name) # None <=> Did(name)
          /\ PlotOf(name) # None => PlotOf(name).rows = sp.x_test.index

\* C10 witness: a run that went through all eight steps.
PipelineWitness ==
    /\ pc = "done"
    /\ Len(steps) = 8
    /\ Len(sp.x_test.index) = 2

====
